---------------------------- MODULE Spec2Model ----------------------------
(***************************************************************************)
(* Model of rascaline's Clebsch-Gordan combination dispatch functions      *)
(* (utils/clebsch_gordan/_dispatch.py) and of the PowerSpectrum calculator *)
(* (utils/power_spectrum.py).                                              *)
(*                                                                         *)
(* numpy arrays are records [type, shape, data]: data is the C-ordered     *)
(* (row-major) flat content, indices are 0-based as in Python.  Array      *)
(* values are integers: the arithmetic of the model is exact, so a         *)
(* statement about equal arrays is a statement up to floating round-off.   *)
(***************************************************************************)
EXTENDS Integers, Sequences, FiniteSets, TLC

(***************************************************************************)
(* Bounds of the model.                                                    *)
(***************************************************************************)
MaxSamples == 2
MaxProps == 2
MaxL == 1

Seeds == {1, 2}

(***************************************************************************)
(* numpy: shapes, C-order indexing, zeros, broadcasting, swapaxes,         *)
(* reshape, matmul.                                                        *)
(***************************************************************************)
RECURSIVE Prod(_)
Prod(s) == IF s = <<>> THEN 1 ELSE Head(s) * Prod(Tail(s))

\* strides of a C-ordered array: stride[j] is the product of shape[j+1..]
Strides(shape) ==
    LET n == Len(shape)
        F[j \in 1..n] == IF j = n THEN 1 ELSE F[j + 1] * shape[j + 1]
    IN [j \in 1..n |-> F[j]] \o <<>>

\* flat 0-based C-order offset of the 0-based index tuple idx
Ravel(idx, shape) ==
    LET n == Len(shape)
    IN CASE n = 1 -> idx[1]
         [] n = 2 -> idx[1] * shape[2] + idx[2]
         [] n = 3 -> (idx[1] * shape[2] + idx[2]) * shape[3] + idx[3]
         [] n = 4 -> ((idx[1] * shape[2] + idx[2]) * shape[3] + idx[3]) * shape[4]
                     + idx[4]
         [] OTHER -> LET F[j \in 0..n] ==
                             IF j = 0 THEN 0 ELSE F[j - 1] * shape[j] + idx[j]
                     IN F[n]

\* the 0-based index tuple of the flat 0-based offset off, given the strides
UnravelWith(off, shape, strides) ==
    [j \in 1..Len(shape) |-> (off \div strides[j]) % shape[j]] \o <<>>

Unravel(off, shape) == UnravelWith(off, shape, Strides(shape))

\* the data is held as a tuple
NdArray(shape, data) ==
    [type |-> "ndarray", shape |-> shape, data |-> data \o <<>>]

\* an object that is not a numpy array: it has no shape the code reads
Opaque(type) == [type |-> type, shape |-> <<>>, data |-> <<>>]

At(a, idx) == a.data[1 + Ravel(idx, a.shape)]

FromFunction(shape, f(_)) ==
    LET strides == Strides(shape)
    IN NdArray(shape, [k \in 1..Prod(shape) |-> f(UnravelWith(k - 1, shape, strides))])

np_zeros(shape) == FromFunction(shape, LAMBDA idx : 0)

\* a[...] with None (np.newaxis) entries: the same data under a shape with
\* axes of length 1 inserted
View(a, shape) == NdArray(shape, a.data)

Broadcastable(s1, s2) ==
    /\ Len(s1) = Len(s2)
    /\ \A j \in 1..Len(s1) : s1[j] = s2[j] \/ s1[j] = 1 \/ s2[j] = 1

BroadcastShape(s1, s2) ==
    [j \in 1..Len(s1) |-> IF s1[j] = 1 THEN s2[j] ELSE s1[j]]

\* the index of a broadcast operand: 0 along its axes of length 1
Clip(idx, shape) == [j \in 1..Len(shape) |-> IF shape[j] = 1 THEN 0 ELSE idx[j]]

\* a * b for two arrays of the same rank whose shapes broadcast
np_multiply(a, b) ==
    FromFunction(BroadcastShape(a.shape, b.shape),
                 LAMBDA idx : At(a, Clip(idx, a.shape)) * At(b, Clip(idx, b.shape)))

Scale(a, c) == NdArray(a.shape, [k \in 1..Len(a.data) |-> a.data[k] * c])

SwapIdx(s, i, j) ==
    [k \in 1..Len(s) |-> IF k = i THEN s[j] ELSE IF k = j THEN s[i] ELSE s[k]]

\* a.swapaxes(i, j), axes numbered from 0 as in numpy
swapaxes(a, i, j) ==
    FromFunction(SwapIdx(a.shape, i + 1, j + 1),
                 LAMBDA idx : At(a, SwapIdx(idx, i + 1, j + 1)))

\* the shape a.reshape(shape) gives, one entry of shape may be -1;
\* <<-1>> stands for numpy's ValueError
ReshapeShape(a, shape) ==
    LET known == Prod([j \in 1..Len(shape) |->
                          IF shape[j] = -1 THEN 1 ELSE shape[j]])
        holes == {j \in 1..Len(shape) : shape[j] = -1}
        size  == Prod(a.shape)
    IN IF holes = {}
       THEN IF known = size THEN shape ELSE <<-1>>
       ELSE IF known = 0 \/ size % known # 0
            THEN <<-1>>
            ELSE [j \in 1..Len(shape) |->
                     IF shape[j] = -1 THEN size \div known ELSE shape[j]]

reshape(a, shape) == NdArray(ReshapeShape(a, shape), a.data)

\* a @ b for a of shape [n, r, k] and b of shape [k, c]
matmul(a, b) ==
    FromFunction(<<a.shape[1], a.shape[2], b.shape[2]>>,
        LAMBDA idx :
            LET S[t \in 0..a.shape[3]] ==
                    IF t = 0 THEN 0
                    ELSE S[t - 1]
                         + At(a, <<idx[1], idx[2], t - 1>>) * At(b, <<t - 1, idx[3]>>)
            IN S[a.shape[3]])

(***************************************************************************)
(* Inputs of the combination functions.                                    *)
(***************************************************************************)
\* an array of the given shape with entries in -2..2
ArrGen(seed, salt, shape) ==
    NdArray(shape, [k \in 1..Prod(shape) |-> ((seed * k + k * k + salt) % 5) - 2])

Triangle(l1, l2, lambda) ==
    /\ (IF l1 >= l2 THEN l1 - l2 ELSE l2 - l1) <= lambda
    /\ lambda <= l1 + l2

\* the (l1, l2, lambda) triples a coefficient cache holds
CachedTriples ==
    {t \in (0..MaxL) \X (0..MaxL) \X (0..2 * MaxL) : Triangle(t[1], t[2], t[3])}

\* the coefficient of (m1, m2, mu), each an index into its component axis;
\* the tables of the second seed have no coefficient for the last mu of a
\* lambda > 0
CoeffValue(seed, t, idx) ==
    IF seed = 2 /\ t[3] > 0 /\ idx[3] = 2 * t[3]
    THEN 0
    ELSE ((seed * (idx[1] + 1) + 2 * idx[2] + 3 * idx[3] + t[1] + t[3] + 1) % 4) - 1

CoeffShape(t) == <<2 * t[1] + 1, 2 * t[2] + 1, 2 * t[3] + 1>>

\* dense coefficients of one triple: an array of shape [2*l1+1, 2*l2+1, 2*lambda+1]
DenseCoeffs(seed, t) ==
    FromFunction(CoeffShape(t), LAMBDA idx : CoeffValue(seed, t, idx))

\* sparse coefficients of one triple: the dictionary {(m1, m2, mu): value} of
\* the nonzero entries, as the sequence of its items <<m1, m2, mu, value>>
SparseCoeffs(seed, t) ==
    LET all == [k \in 1..Prod(CoeffShape(t)) |->
                   LET idx == Unravel(k - 1, CoeffShape(t))
                   IN <<idx[1], idx[2], idx[3], CoeffValue(seed, t, idx)>>]
    IN SelectSeq(all, LAMBDA e : e[4] # 0)

\* the arguments and the outcomes of _sparse_combine and _dense_combine
VARIABLES arr_1, arr_2, lam, return_empty_array, sparse_cache, dense_cache,
          sparse_ret, dense_ret

\* a PowerSpectrum and one call of its compute: the arguments and the
\* outcome of the constructor, the place reached in compute, its arguments,
\* the number of calls made to each calculator, its locals and its outcome;
\* passes holds, when the passes of the loop are run in any order, what
\* the pass at each position run so far has produced
VARIABLES init_arguments, power_spectrum, pc, systems, gradients,
          calculator_calls, spherical_expansion_1, spherical_expansion_2,
          keys, blocks, iteration, compute_ret, passes

cg_vars == <<arr_1, arr_2, lam, return_empty_array, sparse_cache, dense_cache,
             sparse_ret, dense_ret>>

ps_vars == <<init_arguments, power_spectrum, pc, systems, gradients,
             calculator_calls, spherical_expansion_1, spherical_expansion_2,
             keys, blocks, iteration, compute_ret, passes>>

vars == <<cg_vars, ps_vars>>

(***************************************************************************)
(* Outcome of a call: it returns a value or raises an exception.           *)
(* cg_reads counts the subscripts of cg_cache.coeffs the call evaluated.   *)
(***************************************************************************)
None == Opaque("NoneType")
Pending == [tag |-> "pending", exc |-> "", value |-> None, cg_reads |-> 0]
Return(v, reads) == [tag |-> "return", exc |-> "", value |-> v, cg_reads |-> reads]
Raise(e, reads) == [tag |-> "raise", exc |-> e, value |-> None, cg_reads |-> reads]

(***************************************************************************)
(* _sparse_combine                                                         *)
(***************************************************************************)
\* arr[:, m, :] of an array of shape [n, M, p]
Component(arr, m) ==
    FromFunction(<<arr.shape[1], arr.shape[3]>>,
                 LAMBDA idx : At(arr, <<idx[1], m, idx[2]>>))

\* arr_out[:, mu, :] = term
AddComponent_Overwrite(arr_out, mu, term) ==
    FromFunction(arr_out.shape,
        LAMBDA idx : IF idx[2] = mu THEN At(term, <<idx[1], idx[3]>>)
                     ELSE At(arr_out, idx))

\* arr_out[:, mu, :] += term
AddComponent(arr_out, mu, term) ==
    FromFunction(arr_out.shape,
        LAMBDA idx : At(arr_out, idx)
                     + (IF idx[2] = mu THEN At(term, <<idx[1], idx[3]>>) ELSE 0))

\* SparseStep with the outer product laid out with the properties of arr_2
\* outer and those of arr_1 inner
SparseStep_SwappedOuter(arr_out, a1, a2, e) ==
    LET n_i == a1.shape[1]
        n_p == a1.shape[3]
        n_q == a2.shape[3]
        c1 == Component(a1, e[1])
        c2 == Component(a2, e[2])
        prod == Scale(np_multiply(View(c1, <<n_i, 1, n_p>>),
                                  View(c2, <<a2.shape[1], n_q, 1>>)), e[4])
    IN AddComponent(arr_out, e[3], reshape(prod, <<n_i, n_p * n_q>>))

\* one pass of the loop over cg_coeffs.keys()
SparseStep(arr_out, a1, a2, e) ==
    LET n_i == a1.shape[1]
        n_p == a1.shape[3]
        n_q == a2.shape[3]
        c1 == Component(a1, e[1])
        c2 == Component(a2, e[2])
        prod == Scale(np_multiply(View(c1, <<n_i, n_p, 1>>),
                                  View(c2, <<a2.shape[1], 1, n_q>>)), e[4])
    IN AddComponent(arr_out, e[3], reshape(prod, <<n_i, n_p * n_q>>))

RECURSIVE SparseLoop(_, _, _, _)
SparseLoop(arr_out, a1, a2, items) ==
    IF items = <<>> THEN arr_out
    ELSE SparseLoop(SparseStep(arr_out, a1, a2, Head(items)), a1, a2, Tail(items))

\* l inferred from the length of the component axis: (len - 1) // 2
InferL(arr) == (arr.shape[2] - 1) \div 2

\* SparseNumpy reading a missing triple as an empty table of coefficients
SparseNumpy_DefaultCoeffs(a1, a2, lambda, cg_cache, empty) ==
    IF a1.shape[1] # a2.shape[1]
    THEN Raise("AssertionError", 0)
    ELSE LET n_i == a1.shape[1]
             n_p == a1.shape[3]
             n_q == a2.shape[3]
             t == <<InferL(a1), InferL(a2), lambda>>
             arr_out == np_zeros(<<n_i, 2 * lambda + 1, n_p * n_q>>)
         IN IF empty
            THEN Return(arr_out, 0)
            ELSE IF t \notin DOMAIN cg_cache
                 THEN Return(arr_out, 1)
                 ELSE Return(SparseLoop(arr_out, a1, a2, cg_cache[t]), 1)

\* SparseNumpy fetching the coefficients before it looks at return_empty_array
SparseNumpy_LookupFirst(a1, a2, lambda, cg_cache, empty) ==
    IF a1.shape[1] # a2.shape[1]
    THEN Raise("AssertionError", 0)
    ELSE LET n_i == a1.shape[1]
             n_p == a1.shape[3]
             n_q == a2.shape[3]
             t == <<InferL(a1), InferL(a2), lambda>>
             arr_out == np_zeros(<<n_i, 2 * lambda + 1, n_p * n_q>>)
         IN IF t \notin DOMAIN cg_cache
            THEN Raise("KeyError", 1)
            ELSE IF empty
                 THEN Return(arr_out, 1)
                 ELSE Return(SparseLoop(arr_out, a1, a2, cg_cache[t]), 1)

SparseNumpy(a1, a2, lambda, cg_cache, empty) ==
    IF a1.shape[1] # a2.shape[1]
    THEN Raise("AssertionError", 0)
    ELSE LET n_i == a1.shape[1]
             n_p == a1.shape[3]
             n_q == a2.shape[3]
             t == <<InferL(a1), InferL(a2), lambda>>
             arr_out == np_zeros(<<n_i, 2 * lambda + 1, n_p * n_q>>)
         IN IF empty
            THEN Return(arr_out, 0)
            ELSE IF t \notin DOMAIN cg_cache
                 THEN Raise("KeyError", 1)
                 ELSE Return(SparseLoop(arr_out, a1, a2, cg_cache[t]), 1)

_sparse_combine(a1, a2, lambda, cg_cache, empty) ==
    IF a1.type = "ndarray"
    THEN SparseNumpy(a1, a2, lambda, cg_cache, empty)
    ELSE IF a1.type = "torch"
         THEN Return(None, 0)
         ELSE Raise("TypeError", 0)

(***************************************************************************)
(* _dense_combine                                                          *)
(***************************************************************************)
\* DenseNumpy without the last swapaxes
DenseNumpy_NoFinalSwap(a1, a2, lambda, cg_cache) ==
    LET t == <<InferL(a1), InferL(a2), lambda>>
        v1 == View(a1, <<a1.shape[1], 1, 1, a1.shape[2], a1.shape[3]>>)
        v2 == View(a2, <<a2.shape[1], a2.shape[2], a2.shape[3], 1, 1>>)
    IN IF t \notin DOMAIN cg_cache
       THEN Raise("KeyError", 1)
       ELSE IF ~Broadcastable(v1.shape, v2.shape)
            THEN Raise("ValueError", 1)
            ELSE LET out1 == swapaxes(np_multiply(v1, v2), 1, 4)
                     shape2 == <<-1, a1.shape[3] * a2.shape[3],
                                 a1.shape[2] * a2.shape[2]>>
                     cg_coeffs == reshape(cg_cache[t], <<-1, 2 * lambda + 1>>)
                 IN IF ReshapeShape(out1, shape2) = <<-1>>
                    THEN Raise("ValueError", 1)
                    ELSE Return(matmul(reshape(out1, shape2), cg_coeffs), 1)

DenseNumpy(a1, a2, lambda, cg_cache) ==
    LET t == <<InferL(a1), InferL(a2), lambda>>
        v1 == View(a1, <<a1.shape[1], 1, 1, a1.shape[2], a1.shape[3]>>)
        v2 == View(a2, <<a2.shape[1], a2.shape[2], a2.shape[3], 1, 1>>)
    IN IF t \notin DOMAIN cg_cache
       THEN Raise("KeyError", 1)
       ELSE IF ~Broadcastable(v1.shape, v2.shape)
            THEN Raise("ValueError", 1)
            ELSE LET out1 == swapaxes(np_multiply(v1, v2), 1, 4)
                     shape2 == <<-1, a1.shape[3] * a2.shape[3],
                                 a1.shape[2] * a2.shape[2]>>
                     cg_coeffs == reshape(cg_cache[t], <<-1, 2 * lambda + 1>>)
                 IN IF ReshapeShape(out1, shape2) = <<-1>>
                    THEN Raise("ValueError", 1)
                    ELSE Return(swapaxes(matmul(reshape(out1, shape2), cg_coeffs),
                                         1, 2), 1)

\* _dense_combine without the branch of the torch tensors
_dense_combine_NoTorchBranch(a1, a2, lambda, cg_cache) ==
    IF a1.type = "ndarray"
    THEN DenseNumpy(a1, a2, lambda, cg_cache)
    ELSE Raise("TypeError", 0)

_dense_combine(a1, a2, lambda, cg_cache) ==
    IF a1.type = "ndarray"
    THEN DenseNumpy(a1, a2, lambda, cg_cache)
    ELSE IF a1.type = "torch"
         THEN Return(None, 0)
         ELSE Raise("TypeError", 0)

(***************************************************************************)
(* equistore data: Labels, TensorBlock, TensorMap.                         *)
(***************************************************************************)
Labels(names, values) == [names |-> names, values |-> values]

\* Labels.__eq__: same names, same rows in the same order
\* a comparison of the names of the dimensions alone
LabelsEqual_NamesOnly(a, b) == a.names = b.names

LabelsEqual(a, b) == a.names = b.names /\ a.values = b.values

\* the column of a Labels, labels["name"]
Column(labels, name) ==
    LET c == CHOOSE j \in 1..Len(labels.names) : labels.names[j] = name
    IN [r \in 1..Len(labels.values) |-> labels.values[r][c]]

Range(f) == {f[x] : x \in DOMAIN f}

\* a < b in the lexicographic order of integer rows of the same length
RowLess(a, b) ==
    \E j \in 1..Len(a) :
        /\ a[j] < b[j]
        /\ \A i \in 1..(j - 1) : a[i] = b[i]

\* the rows of a set in increasing lexicographic order
RECURSIVE SortedRows(_)
SortedRows(S) ==
    IF S = {} THEN <<>>
    ELSE LET least == CHOOSE r \in S : \A o \in S \ {r} : RowLess(r, o)
         IN <<least>> \o SortedRows(S \ {least})

\* 1-based position of row r in the sequence rows, 0 when absent
Position(rows, r) ==
    IF \E j \in 1..Len(rows) : rows[j] = r
    THEN CHOOSE j \in 1..Len(rows) : rows[j] = r
    ELSE 0

\* the sequence without its repeated entries, first occurrences kept
RECURSIVE Unique(_)
Unique(rows) ==
    IF rows = <<>> THEN <<>>
    ELSE LET front == Unique(SubSeq(rows, 1, Len(rows) - 1))
             last == rows[Len(rows)]
         IN IF last \in Range(front) THEN front ELSE Append(front, last)

RECURSIVE Flatten(_)
Flatten(seqs) == IF seqs = <<>> THEN <<>> ELSE Head(seqs) \o Flatten(Tail(seqs))

NoGradients == [p \in {} |-> None]

\* TensorBlock(values, samples, components, properties), without gradients
TensorBlock(values, samples, components, properties) ==
    [values |-> values, samples |-> samples, components |-> components,
     properties |-> properties, gradients |-> NoGradients]

\* the constructor's check: the shape of the array along each axis is the
\* number of rows of the labels of this axis
BlockShapeOk(values, samples, components, properties) ==
    values.shape = <<Len(samples.values)>>
                   \o [j \in 1..Len(components) |-> Len(components[j].values)]
                   \o <<Len(properties.values)>>

TensorMap(key_labels, block_list) == [keys |-> key_labels, blocks |-> block_list]

\* values[rows, ...]: indexing the first axis with a list of 0-based indices
Take(arr, rows) ==
    FromFunction(<<Len(rows)>> \o Tail(arr.shape),
                 LAMBDA idx : At(arr, <<rows[idx[1] + 1]>> \o Tail(idx)))

(***************************************************************************)
(* TensorMap.keys_to_properties: the key dimension dim leaves the keys and *)
(* becomes the first dimension of the properties.  The blocks whose keys   *)
(* differ only in dim are merged: the samples are the sorted union of      *)
(* their samples, the properties are the rows (v, p) for the moved values  *)
(* v in order and the property rows p, and entries no block holds are     *)
(* zero.                                                                   *)
(***************************************************************************)
DropAt(row, c) == SubSeq(row, 1, c - 1) \o SubSeq(row, c + 1, Len(row))
InsertAt(row, c, v) == SubSeq(row, 1, c - 1) \o <<v>> \o SubSeq(row, c, Len(row))

\* the sorted distinct values of an integer sequence: np.unique
np_unique(values) ==
    LET rows == SortedRows({<<v>> : v \in Range(values)})
    IN [j \in 1..Len(rows) |-> rows[j][1]]

MergedBlock(tm, c, dim, moved, zero, nk) ==
    LET member == [j \in 1..Len(moved) |->
                      Position(tm.keys.values, InsertAt(nk, c, moved[j]))]
        present == {j \in 1..Len(moved) : member[j] # 0}
        blk(j) == tm.blocks[member[j]]
        proto == blk(CHOOSE j \in present : \A o \in present : j <= o)
        props(j) == IF j \in present THEN blk(j).properties.values
                    ELSE proto.properties.values
        \* column q of the merged block is property row col[q][2] of moved
        \* value number col[q][1]
        col == Flatten([j \in 1..Len(moved) |->
                           [p \in 1..Len(props(j)) |-> <<j, p>>]])
        properties == Labels(<<dim>> \o proto.properties.names,
                             [q \in 1..Len(col) |->
                                 <<moved[col[q][1]]>> \o props(col[q][1])[col[q][2]]])
        samples == Labels(proto.samples.names,
                          SortedRows(UNION {Range(blk(j).samples.values) :
                                               j \in present}))
        Mid(shape) == SubSeq(shape, 2, Len(shape) - 1)
        MidIdx(idx) == SubSeq(idx, 2, Len(idx) - 1)
        values ==
            FromFunction(<<Len(samples.values)>> \o Mid(proto.values.shape)
                                                 \o <<Len(col)>>,
                LAMBDA idx :
                    LET q == col[idx[Len(idx)] + 1]
                        row == IF q[1] \in present
                               THEN Position(blk(q[1]).samples.values,
                                             samples.values[idx[1] + 1])
                               ELSE 0
                    IN IF row = 0 THEN zero
                       ELSE At(blk(q[1]).values,
                               <<row - 1>> \o MidIdx(idx) \o <<q[2] - 1>>))
        \* a gradient sample of block j with its "sample" entry pointing into
        \* the merged samples
        Moved(j, g) ==
            <<Position(samples.values, blk(j).samples.values[g[1] + 1]) - 1>>
            \o Tail(g)
        Gradient(parameter) ==
            LET pgrad == proto.gradients[parameter]
                gsamples ==
                    Labels(pgrad.samples.names,
                           SortedRows(UNION {{Moved(j, g) :
                                    g \in Range(blk(j).gradients[parameter].samples.values)} :
                                j \in present}))
                gvalues ==
                    FromFunction(<<Len(gsamples.values)>> \o Mid(pgrad.values.shape)
                                                          \o <<Len(col)>>,
                        LAMBDA idx :
                            LET q == col[idx[Len(idx)] + 1]
                                old == IF q[1] \in present
                                       THEN blk(q[1]).gradients[parameter]
                                       ELSE pgrad
                                hit == IF q[1] \in present
                                       THEN {r \in 1..Len(old.samples.values) :
                                               Moved(q[1], old.samples.values[r])
                                                 = gsamples.values[idx[1] + 1]}
                                       ELSE {}
                            IN IF hit = {} THEN zero
                               ELSE At(old.values,
                                       <<(CHOOSE r \in hit : TRUE) - 1>>
                                       \o MidIdx(idx) \o <<q[2] - 1>>))
            IN TensorBlock(gvalues, gsamples, pgrad.components, properties)
    IN [TensorBlock(values, samples, proto.components, properties)
           EXCEPT !.gradients = [parameter \in DOMAIN proto.gradients |->
                                    Gradient(parameter)]]

keys_to_properties(tm, dim, moved, zero) ==
    LET c == CHOOSE j \in 1..Len(tm.keys.names) : tm.keys.names[j] = dim
        new_keys == Unique([k \in 1..Len(tm.keys.values) |->
                               DropAt(tm.keys.values[k], c)])
    IN TensorMap(Labels(DropAt(tm.keys.names, c), new_keys),
                 [k \in 1..Len(new_keys) |->
                     MergedBlock(tm, c, dim, moved, zero, new_keys[k])])

(***************************************************************************)
(* Values scaled by factor = 1 / sqrt(2 * ell + 1).  The factor is kept    *)
(* exact: a scaled entry is the pair <<n, d>> standing for n / sqrt(d),    *)
(* and zero is <<0, 1>>.                                                   *)
(***************************************************************************)
Q(n, d) == IF n = 0 THEN <<0, 1>> ELSE <<n, d>>

\* the sum of two scaled entries with the same divisor
QAdd(x, y) ==
    IF x[1] = 0 THEN y
    ELSE IF y[1] = 0 THEN x
    ELSE Q(x[1] + y[1], x[2])

\* factor = 1
Factor_Unscaled(ell) == 1

\* factor = 1 / sqrt(2 * ell + 1), as the number under the root
Factor(ell) == 2 * ell + 1

\* factor * arr
TimesFactor(factor, arr) ==
    NdArray(arr.shape, [k \in 1..Len(arr.data) |-> Q(arr.data[k], factor)])

\* np.zeros(shape) of an array that receives scaled entries
q_zeros(shape) == NdArray(shape, [k \in 1..Prod(shape) |-> <<0, 1>>])

\* np.matmul(a, b) of two arrays of the same rank: the matrix product over
\* the last two axes, the leading axes broadcast
np_matmul(a, b) ==
    LET r == Len(a.shape)
        lead == BroadcastShape(SubSeq(a.shape, 1, r - 2), SubSeq(b.shape, 1, r - 2))
        inner == a.shape[r]
    IN FromFunction(lead \o <<a.shape[r - 1], b.shape[r]>>,
        LAMBDA idx :
            LET la == Clip(SubSeq(idx, 1, r - 2), SubSeq(a.shape, 1, r - 2))
                lb == Clip(SubSeq(idx, 1, r - 2), SubSeq(b.shape, 1, r - 2))
                S[t \in 0..inner] ==
                    IF t = 0 THEN 0
                    ELSE S[t - 1] + At(a, la \o <<idx[r - 1], t - 1>>)
                                    * At(b, lb \o <<t - 1, idx[r]>>)
            IN S[inner])

\* target[rows] = addend: the rows of addend replace those of target
AddRows_Overwrite(target, rows, addend) ==
    LET width == Prod(Tail(target.shape))
    IN NdArray(target.shape,
           [k \in 1..Len(target.data) |->
               LET u == (k - 1) \div width
                   hit == {j \in 1..Len(rows) : rows[j] = u}
               IN IF hit = {} THEN target.data[k]
                  ELSE LET j == CHOOSE x \in hit : \A o \in hit : o <= x
                       IN addend.data[(j - 1) * width + ((k - 1) % width) + 1]])

\* target[rows] += addend: row j of addend goes to row rows[j] of target;
\* of several rows sent to the same target row the last one is kept, as
\* numpy's buffered fancy-index assignment does
AddRows(target, rows, addend) ==
    LET width == Prod(Tail(target.shape))
    IN NdArray(target.shape,
           [k \in 1..Len(target.data) |->
               LET u == (k - 1) \div width
                   hit == {j \in 1..Len(rows) : rows[j] = u}
               IN IF hit = {} THEN target.data[k]
                  ELSE LET j == CHOOSE x \in hit : \A o \in hit : o <= x
                       IN QAdd(target.data[k],
                               addend.data[(j - 1) * width + ((k - 1) % width) + 1])])

\* a union whose positions are found by the first column of a row alone
union_and_mapping_BySample(self, other) ==
    LET extra == SelectSeq(other.values, LAMBDA r : r \notin Range(self.values))
        union == self.values \o extra
        first(r) == CHOOSE u \in 1..Len(union) :
                        /\ union[u][1] = r[1]
                        /\ \A v \in 1..(u - 1) : union[v][1] # r[1]
    IN [union |-> Labels(self.names, union),
        self_mapping |-> [i \in 1..Len(self.values) |-> first(self.values[i]) - 1],
        other_mapping |-> [j \in 1..Len(other.values) |-> first(other.values[j]) - 1]]

\* a union that keeps the rows of other that self holds already
union_and_mapping_Concatenate(self, other) ==
    [union |-> Labels(self.names, self.values \o other.values),
     self_mapping |-> [i \in 1..Len(self.values) |-> i - 1],
     other_mapping |-> [j \in 1..Len(other.values) |-> Len(self.values) + j - 1]]

(***************************************************************************)
(* Labels.union_and_mapping: the rows of self, then the rows of other that *)
(* self does not hold, with the position in the union of every row of      *)
(* self and of every row of other.                                         *)
(***************************************************************************)
union_and_mapping(self, other) ==
    LET extra == SelectSeq(other.values, LAMBDA r : r \notin Range(self.values))
        union == self.values \o extra
    IN [union |-> Labels(self.names, union),
        self_mapping |-> [i \in 1..Len(self.values) |->
                             Position(union, self.values[i]) - 1],
        other_mapping |-> [j \in 1..Len(other.values) |->
                              Position(union, other.values[j]) - 1]]

(***************************************************************************)
(* The calculators PowerSpectrum is built from, and the spherical          *)
(* expansion a calculator computes for a system.                           *)
(***************************************************************************)
MaxRadial == 2

supported_calculators == {"lode_spherical_expansion", "spherical_expansion"}
CalculatorNames == supported_calculators \cup {"soap_power_spectrum"}

Calculator(c_name, max_angular, max_radial) ==
    [c_name |-> c_name,
     parameters |-> [max_angular |-> max_angular, max_radial |-> max_radial]]

\* calculator_2 = None
NoCalculator == Calculator("None", 0, 0)

Calculators ==
    {Calculator(c, a, r) : c \in CalculatorNames, a \in 0..MaxL, r \in 1..MaxRadial}

\* a system: one structure, given by the species of its atoms 0, 1, ...
Systems == {<<1, 1>>, <<1, 2>>}

\* the gradients argument: None or a list of parameter names
GradientsNone == [is_none |-> TRUE, list |-> <<>>]
GradientsList(list) == [is_none |-> FALSE, list |-> list]
GradientsArguments ==
    {GradientsNone, GradientsList(<<>>), GradientsList(<<"positions">>),
     GradientsList(<<"cell">>), GradientsList(<<"positions", "cell">>)}

expected_key_names == <<"spherical_harmonics_l", "species_center", "species_neighbor">>

\* what a calculator run is free to produce: the names of its keys and
\* properties, the atoms that are no sample of its blocks, and the atoms
\* its gradient samples cover
Upstreams(requested) ==
    [naming : {"expected", "other_keys", "other_properties"},
     skip : {{}, {0}},
     gradient_samples : IF ~requested.is_none /\ "positions" \in Range(requested.list)
                        THEN {"neighbors", "center", "first", "empty"}
                        ELSE {"none"}]

\* the block of key (l, species_center, species_neighbor)
ExpansionBlock(calculator, system, up, key) ==
    LET l == key[1]
        atoms == 0..(Len(system) - 1)
        seed == IF calculator.c_name = "spherical_expansion" THEN 1 ELSE 2
        salt == 7 * l + 3 * key[2] + key[3]
        centers == SortedRows({<<0, i>> : i \in {a \in atoms \ up.skip :
                                                    system[a + 1] = key[2]}})
        samples == Labels(<<"structure", "center">>, centers)
        m == Labels(<<"spherical_harmonics_m">>, [j \in 1..(2 * l + 1) |-> <<j - l - 1>>])
        direction == Labels(<<"direction">>, <<<<0>>, <<1>>, <<2>>>>)
        n == [j \in 1..calculator.parameters.max_radial |-> <<j - 1>>]
        properties == IF up.naming = "other_properties"
                      THEN Labels(<<"species_neighbor", "n">>,
                                  [j \in 1..Len(n) |-> <<key[3]>> \o n[j]])
                      ELSE Labels(<<"n">>, n)
        values == ArrGen(seed, salt, <<Len(centers), 2 * l + 1, Len(n)>>)
        covered(s) ==
            LET center == centers[s + 1][2]
            IN CASE up.gradient_samples = "neighbors"
                      -> {a \in atoms : system[a + 1] = key[3] \/ a = center}
                 [] up.gradient_samples = "center" -> {center}
                 [] up.gradient_samples = "first" -> {0}
                 [] OTHER -> {}
        grad_rows == SortedRows(UNION {{<<s, 0, a>> : a \in covered(s)} :
                                          s \in 0..(Len(centers) - 1)})
        gradient == TensorBlock(
                        ArrGen(seed, salt + 2,
                               <<Len(grad_rows), 3, 2 * l + 1, Len(n)>>),
                        Labels(<<"sample", "structure", "atom">>, grad_rows),
                        <<direction, m>>, properties)
        block == TensorBlock(values, samples, <<m>>, properties)
    IN IF up.gradient_samples = "none" THEN block
       ELSE [block EXCEPT !.gradients = [p \in {"positions"} |-> gradient]]

\* calculator.compute(systems, gradients): one block for every l up to
\* max_angular, every species of a center and every species of a neighbor
CalculatorCompute(calculator, system, up) ==
    LET atoms == 0..(Len(system) - 1)
        rows == SortedRows({<<l, system[c + 1], system[a + 1]>> :
                               l \in 0..calculator.parameters.max_angular,
                               c \in atoms \ up.skip, a \in atoms})
        names == IF up.naming = "other_keys"
                 THEN <<"l", "species_center", "species_neighbor">>
                 ELSE expected_key_names
    IN TensorMap(Labels(names, rows),
                 [k \in 1..Len(rows) |-> ExpansionBlock(calculator, system, up, rows[k])])

\* TensorMap.property_names
property_names(tm) ==
    IF tm.blocks = <<>> THEN <<>> ELSE tm.blocks[1].properties.names

(***************************************************************************)
(* PowerSpectrum                                                           *)
(***************************************************************************)
Returned(v) == [tag |-> "return", exc |-> "", value |-> v]
Raised(e) == [tag |-> "raise", exc |-> e, value |-> None]
NotCalled == [tag |-> "pending", exc |-> "", value |-> None]

\* a constructor that leaves out the comparison of the two max_angular
PowerSpectrumInit_NoAngularCheck(calculator_1, calculator_2) ==
    IF calculator_1.c_name \notin supported_calculators
    THEN Raised("ValueError")
    ELSE IF calculator_2 # NoCalculator
              /\ calculator_2.c_name \notin supported_calculators
         THEN Raised("ValueError")
         ELSE Returned([calculator_1 |-> calculator_1,
                        calculator_2 |-> calculator_2])

\* PowerSpectrum.__init__
PowerSpectrumInit(calculator_1, calculator_2) ==
    IF calculator_1.c_name \notin supported_calculators
    THEN Raised("ValueError")
    ELSE IF calculator_2 # NoCalculator
         THEN IF calculator_2.c_name \notin supported_calculators
              THEN Raised("ValueError")
              ELSE IF calculator_1.parameters.max_angular
                        # calculator_2.parameters.max_angular
                   THEN Raised("ValueError")
                   ELSE Returned([calculator_1 |-> calculator_1,
                                  calculator_2 |-> calculator_2])
         ELSE Returned([calculator_1 |-> calculator_1,
                        calculator_2 |-> calculator_2])

\* a check that looks at the first requested parameter alone
GradientsSupported_FirstOnly(requested) ==
    requested.is_none \/ requested.list = <<>> \/ requested.list[1] = "positions"

\* the check of the gradients argument at the start of compute
GradientsSupported(requested) ==
    requested.is_none \/ \A j \in 1..Len(requested.list) : requested.list[j] = "positions"

\* the assertion on the property names alone
NamesAsExpected_PropertiesOnly(tm) == property_names(tm) = <<"n">>

\* the two assertions on a spherical expansion
NamesAsExpected(tm) ==
    /\ tm.keys.names = expected_key_names
    /\ property_names(tm) = <<"n">>

\* keys_to_properties of all the neighbor species of the keys
MoveNeighbors(tm) ==
    keys_to_properties(tm, "species_neighbor",
                       np_unique(Column(tm.keys, "species_neighbor")), 0)

\* the positions in tm of the blocks that
\* TensorMap.blocks(spherical_harmonics_l=ell, species_center=species_center)
\* selects
positions_matching(tm, ell, species_center) ==
    LET l == Column(tm.keys, "spherical_harmonics_l")
        c == Column(tm.keys, "species_center")
    IN SelectSeq([k \in 1..Len(tm.blocks) |-> k],
                 LAMBDA k : l[k] = ell /\ c[k] = species_center)

\* TensorMap.blocks(spherical_harmonics_l=ell, species_center=species_center)
blocks_matching(tm, ell, species_center) ==
    LET hit == positions_matching(tm, ell, species_center)
    IN [j \in 1..Len(hit) |-> tm.blocks[hit[j]]]

\* the properties in the other order: properties_2 outer, properties_1 inner
NewProperties_Block2Outer(block_1, block_2) ==
    Labels(<<"species_neighbor_1", "n1", "species_neighbor_2", "n2">>,
           Flatten([b \in 1..Len(block_2.properties.values) |->
                       [a \in 1..Len(block_1.properties.values) |->
                           block_1.properties.values[a]
                           \o block_2.properties.values[b]]]))

\* the properties of the new block: properties_1 outer, properties_2 inner
NewProperties(block_1, block_2) ==
    Labels(<<"species_neighbor_1", "n1", "species_neighbor_2", "n2">>,
           Flatten([a \in 1..Len(block_1.properties.values) |->
                       [b \in 1..Len(block_2.properties.values) |->
                           block_1.properties.values[a]
                           \o block_2.properties.values[b]]]))

\* the new block of a pair of blocks, before its gradients
NewBlock(factor, block_1, block_2) ==
    LET data == TimesFactor(factor,
                    np_matmul(swapaxes(block_1.values, 1, 2), block_2.values))
    IN TensorBlock(reshape(data, <<data.shape[1], -1>>), block_1.samples, <<>>,
                   NewProperties(block_1, block_2))

\* TensorBlock.add_gradient(parameter, gradient)
add_gradient(block, parameter, gradient) ==
    [block EXCEPT !.gradients =
        [p \in (DOMAIN @) \cup {parameter} |->
            IF p = parameter THEN gradient ELSE @[p]]]

\* _positions_gradients: the three blocks after the call, new_block with
\* its "positions" gradient, or the exception the gradient's construction
\* raises
_positions_gradients(new_block, block_1, block_2, factor) ==
    LET gradient_1 == block_1.gradients["positions"]
        gradient_2 == block_2.gradients["positions"]
        n_properties == Len(new_block.properties.values)
        empty == Len(gradient_1.samples.values) = 0 \/ Len(gradient_2.samples.values) = 0
        um == union_and_mapping(gradient_1.samples, gradient_2.samples)
        gradients_samples ==
            IF empty THEN Labels(<<"sample", "structure", "atom">>, <<>>)
            ELSE um.union
        zeros == q_zeros(<<Len(um.union.values), 3, n_properties>>)
        gradient_1_values ==
            TimesFactor(factor,
                np_matmul(swapaxes(gradient_1.values, 2, 3),
                          LET rows == Take(block_2.values,
                                           Column(gradient_1.samples, "sample"))
                          IN View(rows, <<rows.shape[1], 1>> \o Tail(rows.shape))))
        added_1 == AddRows(zeros, um.self_mapping,
                           reshape(gradient_1_values,
                                   <<Len(gradient_1.samples.values), 3, -1>>))
        gradient_values_2 ==
            TimesFactor(factor,
                np_matmul(LET rows == Take(block_1.values,
                                           Column(gradient_2.samples, "sample"))
                          IN swapaxes(View(rows, <<rows.shape[1], 1>> \o Tail(rows.shape)),
                                      2, 3),
                          gradient_2.values))
        added_2 == AddRows(added_1, um.other_mapping,
                           reshape(gradient_values_2,
                                   <<Len(gradient_2.samples.values), 3, -1>>))
        gradient_values ==
            IF empty THEN reshape(NdArray(<<0>>, <<>>), <<0, 1, n_properties>>)
            ELSE added_2
        components == <<gradient_1.components[1]>>
    IN IF ~BlockShapeOk(gradient_values, gradients_samples, components,
                        new_block.properties)
       THEN [tag |-> "raise", exc |-> "EquistoreError", block |-> new_block,
             block_1 |-> block_1, block_2 |-> block_2]
       ELSE [tag |-> "ok", exc |-> "",
             block |-> add_gradient(new_block, "positions",
                           TensorBlock(gradient_values, gradients_samples,
                                       components, new_block.properties)),
             block_1 |-> block_1, block_2 |-> block_2]

\* a loop that never reaches _positions_gradients
GradientsLoop_Never(new_block, block_1, block_2, factor) ==
    [tag |-> "ok", exc |-> "", block |-> new_block,
     block_1 |-> block_1, block_2 |-> block_2]

\* a loop whose gradient is added to block_1 instead of new_block
GradientsLoop_IntoBlock1(new_block, block_1, block_2, factor) ==
    IF "positions" \in DOMAIN block_1.gradients
    THEN IF "positions" \in DOMAIN block_2.gradients
         THEN LET call == _positions_gradients(new_block, block_1, block_2, factor)
              IN IF call.tag = "raise" THEN call
                 ELSE [call EXCEPT
                          !.block = new_block,
                          !.block_1 = add_gradient(block_1, "positions",
                                          call.block.gradients["positions"])]
         ELSE [tag |-> "raise", exc |-> "EquistoreError", block |-> new_block,
               block_1 |-> block_1, block_2 |-> block_2]
    ELSE [tag |-> "ok", exc |-> "", block |-> new_block,
          block_1 |-> block_1, block_2 |-> block_2]

\* the loop over block_1.gradients_list(): the three blocks after it
GradientsLoop(new_block, block_1, block_2, factor) ==
    IF "positions" \in DOMAIN block_1.gradients
    THEN IF "positions" \in DOMAIN block_2.gradients
         THEN _positions_gradients(new_block, block_1, block_2, factor)
         ELSE [tag |-> "raise", exc |-> "EquistoreError", block |-> new_block,
               block_1 |-> block_1, block_2 |-> block_2]
    ELSE [tag |-> "ok", exc |-> "", block |-> new_block,
          block_1 |-> block_1, block_2 |-> block_2]

\* a loop that computes the factor once, from the l of the first key of
\* the result list when the list holds one
RECURSIVE InnerLoop_FactorOfFirstKey(_, _, _, _, _, _)
InnerLoop_FactorOfFirstKey(key, block_1, blocks_2, seen_2, out_keys, out_blocks) ==
    IF blocks_2 = <<>>
    THEN [tag |-> "ok", exc |-> "", keys |-> out_keys, blocks |-> out_blocks,
          block_1 |-> block_1, blocks_2 |-> seen_2]
    ELSE LET block_2 == Head(blocks_2)
             factor == Factor(IF out_keys = <<>> THEN key[1] ELSE out_keys[1][1])
             new_block == NewBlock(factor, block_1, block_2)
             done == GradientsLoop(new_block, block_1, block_2, factor)
         IN IF ~LabelsEqual(block_1.samples, block_2.samples)
            THEN [tag |-> "raise", exc |-> "AssertionError",
                  keys |-> out_keys, blocks |-> out_blocks,
                  block_1 |-> block_1, blocks_2 |-> seen_2 \o blocks_2]
            ELSE IF done.tag = "raise"
                 THEN [tag |-> "raise", exc |-> done.exc,
                       keys |-> out_keys, blocks |-> out_blocks,
                       block_1 |-> done.block_1,
                       blocks_2 |-> seen_2 \o <<done.block_2>> \o Tail(blocks_2)]
                 ELSE InnerLoop_FactorOfFirstKey(key, done.block_1, Tail(blocks_2),
                                Append(seen_2, done.block_2),
                                Append(out_keys, key), Append(out_blocks, done.block))

\* the loop over blocks_2, for the block block_1 of key: the keys and the
\* blocks collected, and block_1 and the blocks of blocks_2 after it
RECURSIVE InnerLoop(_, _, _, _, _, _)
InnerLoop(key, block_1, blocks_2, seen_2, out_keys, out_blocks) ==
    IF blocks_2 = <<>>
    THEN [tag |-> "ok", exc |-> "", keys |-> out_keys, blocks |-> out_blocks,
          block_1 |-> block_1, blocks_2 |-> seen_2]
    ELSE LET block_2 == Head(blocks_2)
             factor == Factor(key[1])
             new_block == NewBlock(factor, block_1, block_2)
             done == GradientsLoop(new_block, block_1, block_2, factor)
         IN IF ~LabelsEqual(block_1.samples, block_2.samples)
            THEN [tag |-> "raise", exc |-> "AssertionError",
                  keys |-> out_keys, blocks |-> out_blocks,
                  block_1 |-> block_1, blocks_2 |-> seen_2 \o blocks_2]
            ELSE IF done.tag = "raise"
                 THEN [tag |-> "raise", exc |-> done.exc,
                       keys |-> out_keys, blocks |-> out_blocks,
                       block_1 |-> done.block_1,
                       blocks_2 |-> seen_2 \o <<done.block_2>> \o Tail(blocks_2)]
                 ELSE InnerLoop(key, done.block_1, Tail(blocks_2),
                                Append(seen_2, done.block_2),
                                Append(out_keys, key), Append(out_blocks, done.block))

\* a pass that appends the key after the loop over blocks_2, also when no
\* block of spherical_expansion_2 matched
OuterStep_KeyOutsideLoop(expansion_1, expansion_2, k, out_keys, out_blocks) ==
    LET key == expansion_1.keys.values[k]
        matching == blocks_matching(expansion_2, key[1], key[2])
        pass == InnerLoop(key, expansion_1.blocks[k], matching, <<>>,
                          out_keys, out_blocks)
    IN IF pass.tag = "ok" /\ matching = <<>>
       THEN [pass EXCEPT !.keys = Append(@, key)]
       ELSE pass

\* one pass of the loop over spherical_expansion_1.items()
OuterStep(expansion_1, expansion_2, k, out_keys, out_blocks) ==
    LET key == expansion_1.keys.values[k]
    IN InnerLoop(key, expansion_1.blocks[k],
                 blocks_matching(expansion_2, key[1], key[2]), <<>>,
                 out_keys, out_blocks)

\* a map whose blocks at positions hold the blocks written
WithBlocks(tm, positions, written) ==
    [tm EXCEPT !.blocks =
        [k \in 1..Len(tm.blocks) |->
            IF \E j \in 1..Len(positions) : positions[j] = k
            THEN written[CHOOSE j \in 1..Len(positions) : positions[j] = k]
            ELSE tm.blocks[k]]]

\* TensorMap(keys, blocks).keys_to_properties("l")
ComputeResult(out_keys, out_blocks) ==
    IF out_keys = <<>>
    THEN Raised("ValueError")
    ELSE IF Len(Unique(out_keys)) # Len(out_keys)
         THEN Raised("EquistoreError")
         ELSE LET labels == Labels(<<"l", "species_center">>, out_keys)
              IN Returned(keys_to_properties(TensorMap(labels, out_blocks), "l",
                                             np_unique(Column(labels, "l")),
                                             <<0, 1>>))

(***************************************************************************)
(* Construction of a PowerSpectrum, then one call of compute, step by      *)
(* step: the check of the gradients, the two spherical expansions, the     *)
(* passes of the loop over the blocks, the return.                         *)
(***************************************************************************)
NoMap == TensorMap(Labels(<<>>, <<>>), <<>>)

NoPowerSpectrum ==
    /\ init_arguments = <<>>
    /\ power_spectrum = NotCalled
    /\ pc = "new"
    /\ systems = <<>>
    /\ gradients = GradientsNone
    /\ calculator_calls = <<0, 0>>
    /\ spherical_expansion_1 = NoMap
    /\ spherical_expansion_2 = NoMap
    /\ keys = <<>>
    /\ blocks = <<>>
    /\ iteration = 0
    /\ compute_ret = NotCalled
    /\ passes = <<>>

NoCombination ==
    /\ arr_1 = None
    /\ arr_2 = None
    /\ lam = 0
    /\ return_empty_array = FALSE
    /\ sparse_cache = <<>>
    /\ dense_cache = <<>>
    /\ sparse_ret = Pending
    /\ dense_ret = Pending

Construct ==
    /\ pc = "new"
    /\ \E calculator_1 \in Calculators,
          calculator_2 \in Calculators \cup {NoCalculator} :
          /\ init_arguments' = <<calculator_1, calculator_2>>
          /\ power_spectrum' = PowerSpectrumInit(calculator_1, calculator_2)
    /\ pc' = IF power_spectrum'.tag = "return" THEN "constructed" ELSE "failed"
    /\ UNCHANGED <<systems, gradients, calculator_calls, spherical_expansion_1,
                   spherical_expansion_2, keys, blocks, iteration, compute_ret>>
    /\ UNCHANGED <<cg_vars, passes>>

\* compute is entered: the gradients argument is checked
ComputeBegin ==
    /\ pc = "constructed"
    /\ systems' \in Systems
    /\ gradients' \in GradientsArguments
    /\ IF GradientsSupported(gradients')
       THEN pc' = "calculator_1" /\ UNCHANGED compute_ret
       ELSE pc' = "done" /\ compute_ret' = Raised("NotImplementedError")
    /\ UNCHANGED <<init_arguments, power_spectrum, calculator_calls,
                   spherical_expansion_1, spherical_expansion_2, keys, blocks,
                   iteration>>
    /\ UNCHANGED <<cg_vars, passes>>

\* spherical_expansion_1 = self.calculator_1.compute(...)
ComputeCalculator1 ==
    /\ pc = "calculator_1"
    /\ calculator_calls' = [calculator_calls EXCEPT ![1] = @ + 1]
    /\ \E up \in Upstreams(gradients) :
          spherical_expansion_1' =
              CalculatorCompute(power_spectrum.value.calculator_1, systems, up)
    /\ pc' = "expansion_1"
    /\ UNCHANGED <<init_arguments, power_spectrum, systems, gradients,
                   spherical_expansion_2, keys, blocks, iteration, compute_ret>>
    /\ UNCHANGED <<cg_vars, passes>>

\* the assertions on spherical_expansion_1, then keys_to_properties;
\* without calculator_2 the result is spherical_expansion_2 as well
ComputeExpansion1 ==
    /\ pc = "expansion_1"
    /\ IF ~NamesAsExpected(spherical_expansion_1)
       THEN /\ pc' = "done"
            /\ compute_ret' = Raised("AssertionError")
            /\ UNCHANGED <<spherical_expansion_1, spherical_expansion_2>>
       ELSE /\ spherical_expansion_1' = MoveNeighbors(spherical_expansion_1)
            /\ UNCHANGED compute_ret
            /\ IF power_spectrum.value.calculator_2 = NoCalculator
               THEN /\ spherical_expansion_2' = spherical_expansion_1'
                    /\ pc' = "loop"
               ELSE /\ UNCHANGED spherical_expansion_2
                    /\ pc' = "calculator_2"
    /\ iteration' = 1
    /\ UNCHANGED <<init_arguments, power_spectrum, systems, gradients,
                   calculator_calls, keys, blocks>>
    /\ UNCHANGED <<cg_vars, passes>>

\* spherical_expansion_2 = self.calculator_2.compute(...)
ComputeCalculator2 ==
    /\ pc = "calculator_2"
    /\ calculator_calls' = [calculator_calls EXCEPT ![2] = @ + 1]
    /\ \E up \in Upstreams(gradients) :
          spherical_expansion_2' =
              CalculatorCompute(power_spectrum.value.calculator_2, systems, up)
    /\ pc' = "expansion_2"
    /\ UNCHANGED <<init_arguments, power_spectrum, systems, gradients,
                   spherical_expansion_1, keys, blocks, iteration, compute_ret>>
    /\ UNCHANGED <<cg_vars, passes>>

\* the assertions on spherical_expansion_2, then keys_to_properties
ComputeExpansion2 ==
    /\ pc = "expansion_2"
    /\ IF ~NamesAsExpected(spherical_expansion_2)
       THEN /\ pc' = "done"
            /\ compute_ret' = Raised("AssertionError")
            /\ UNCHANGED spherical_expansion_2
       ELSE /\ spherical_expansion_2' = MoveNeighbors(spherical_expansion_2)
            /\ pc' = "loop"
            /\ UNCHANGED compute_ret
    /\ UNCHANGED <<init_arguments, power_spectrum, systems, gradients,
                   calculator_calls, spherical_expansion_1, keys, blocks,
                   iteration>>
    /\ UNCHANGED <<cg_vars, passes>>

\* one pass of the loop over the blocks of spherical_expansion_1
ComputeIteration ==
    /\ pc = "loop"
    /\ iteration <= Len(spherical_expansion_1.blocks)
    /\ \E step \in {OuterStep(spherical_expansion_1, spherical_expansion_2,
                              iteration, keys, blocks)} :
          LET key == spherical_expansion_1.keys.values[iteration]
              hit == positions_matching(spherical_expansion_2, key[1], key[2])
          IN /\ IF step.tag = "raise"
                THEN /\ pc' = "done"
                     /\ compute_ret' = Raised(step.exc)
                     /\ UNCHANGED <<keys, blocks, iteration>>
                ELSE /\ keys' = step.keys
                     /\ blocks' = step.blocks
                     /\ iteration' = iteration + 1
                     /\ UNCHANGED <<pc, compute_ret>>
             /\ IF power_spectrum.value.calculator_2 = NoCalculator
                THEN \* spherical_expansion_2 is spherical_expansion_1
                     /\ spherical_expansion_1' =
                            WithBlocks(WithBlocks(spherical_expansion_1,
                                                  <<iteration>>, <<step.block_1>>),
                                       hit, step.blocks_2)
                     /\ spherical_expansion_2' = spherical_expansion_1'
                ELSE /\ spherical_expansion_1' =
                            WithBlocks(spherical_expansion_1,
                                       <<iteration>>, <<step.block_1>>)
                     /\ spherical_expansion_2' =
                            WithBlocks(spherical_expansion_2, hit, step.blocks_2)
    /\ UNCHANGED <<init_arguments, power_spectrum, systems, gradients,
                   calculator_calls>>
    /\ UNCHANGED <<cg_vars, passes>>

\* the loop is over: the blocks are collected and returned
ComputeReturn ==
    /\ pc = "loop"
    /\ iteration > Len(spherical_expansion_1.blocks)
    /\ compute_ret' = ComputeResult(keys, blocks)
    /\ pc' = "done"
    /\ UNCHANGED <<init_arguments, power_spectrum, systems, gradients,
                   calculator_calls, spherical_expansion_1,
                   spherical_expansion_2, keys, blocks, iteration>>
    /\ UNCHANGED <<cg_vars, passes>>

InitPS == NoCombination /\ NoPowerSpectrum

NextPS ==
    \/ Construct
    \/ ComputeBegin
    \/ ComputeCalculator1
    \/ ComputeExpansion1
    \/ ComputeCalculator2
    \/ ComputeExpansion2
    \/ ComputeIteration
    \/ ComputeReturn

SpecPS == InitPS /\ [][NextPS]_vars

(***************************************************************************)
(* The passes of the loop of compute run in any order, one pass for each   *)
(* position of spherical_expansion_1, each pass once; the keys and the     *)
(* blocks they produced are then collected in the order of the keys of     *)
(* spherical_expansion_1.                                                  *)
(***************************************************************************)
\* the keys and the blocks produced by the passes run at the positions
\* before k, in the order of the positions
RECURSIVE ProducedBefore(_, _)
ProducedBefore(results, k) ==
    IF k <= 1
    THEN [keys |-> <<>>, blocks |-> <<>>]
    ELSE LET front == ProducedBefore(results, k - 1)
         IN IF (k - 1) \in DOMAIN results
            THEN [keys |-> front.keys \o results[k - 1].keys,
                  blocks |-> front.blocks \o results[k - 1].blocks]
            ELSE front

\* the positions of the passes that raised
RaisedPasses(results) == {p \in DOMAIN results : results[p].tag = "raise"}

FirstRaised(results) ==
    CHOOSE p \in RaisedPasses(results) : \A q \in RaisedPasses(results) : p <= q

\* the loop over spherical_expansion_1.items() from position k on, pass
\* after pass: the exception of the first pass that raises, or the keys
\* and the blocks collected
RECURSIVE SequentialLoop(_, _, _, _, _, _)
SequentialLoop(expansion_1, expansion_2, same_map, k, out_keys, out_blocks) ==
    IF k > Len(expansion_1.blocks)
    THEN [tag |-> "ok", exc |-> "", keys |-> out_keys, blocks |-> out_blocks]
    ELSE LET step == OuterStep(expansion_1, expansion_2, k, out_keys, out_blocks)
             key == expansion_1.keys.values[k]
             hit == positions_matching(expansion_2, key[1], key[2])
             written_1 == WithBlocks(expansion_1, <<k>>, <<step.block_1>>)
             next_1 == IF same_map
                       THEN WithBlocks(written_1, hit, step.blocks_2)
                       ELSE written_1
             next_2 == IF same_map
                       THEN next_1
                       ELSE WithBlocks(expansion_2, hit, step.blocks_2)
         IN IF step.tag = "raise"
            THEN [tag |-> "raise", exc |-> step.exc,
                  keys |-> out_keys, blocks |-> out_blocks]
            ELSE SequentialLoop(next_1, next_2, same_map, k + 1,
                                step.keys, step.blocks)

\* one pass of the loop, at any position whose pass has not run yet; the
\* result lists it is given hold what the passes run before it produced
ComputeIterationAnyOrder ==
    /\ pc = "loop"
    /\ \E k \in (1..Len(spherical_expansion_1.blocks)) \ DOMAIN passes :
          LET seen == ProducedBefore(passes, Len(spherical_expansion_1.blocks) + 1)
              key == spherical_expansion_1.keys.values[k]
              hit == positions_matching(spherical_expansion_2, key[1], key[2])
          IN \E step \in {OuterStep(spherical_expansion_1, spherical_expansion_2,
                                    k, seen.keys, seen.blocks)} :
                /\ passes' =
                       [p \in DOMAIN passes \cup {k} |->
                           IF p = k
                           THEN [tag |-> step.tag, exc |-> step.exc,
                                 keys |-> SubSeq(step.keys, Len(seen.keys) + 1,
                                                 Len(step.keys)),
                                 blocks |-> SubSeq(step.blocks, Len(seen.blocks) + 1,
                                                   Len(step.blocks))]
                           ELSE passes[p]]
                /\ iteration' = k
                /\ IF power_spectrum.value.calculator_2 = NoCalculator
                   THEN /\ spherical_expansion_1' =
                               WithBlocks(WithBlocks(spherical_expansion_1,
                                                     <<k>>, <<step.block_1>>),
                                          hit, step.blocks_2)
                        /\ spherical_expansion_2' = spherical_expansion_1'
                   ELSE /\ spherical_expansion_1' =
                               WithBlocks(spherical_expansion_1,
                                          <<k>>, <<step.block_1>>)
                        /\ spherical_expansion_2' =
                               WithBlocks(spherical_expansion_2, hit, step.blocks_2)
    /\ UNCHANGED <<init_arguments, power_spectrum, pc, systems, gradients,
                   calculator_calls, keys, blocks, compute_ret>>
    /\ UNCHANGED cg_vars

\* every pass has run: what they produced is collected in the order of
\* the keys of spherical_expansion_1, up to the first pass that raised
ComputeCollect ==
    /\ pc = "loop"
    /\ DOMAIN passes = 1..Len(spherical_expansion_1.blocks)
    /\ IF RaisedPasses(passes) # {}
       THEN LET first == FirstRaised(passes)
            IN /\ keys' = ProducedBefore(passes, first).keys
               /\ blocks' = ProducedBefore(passes, first).blocks
               /\ compute_ret' = Raised(passes[first].exc)
       ELSE LET all == ProducedBefore(passes, Len(spherical_expansion_1.blocks) + 1)
            IN /\ keys' = all.keys
               /\ blocks' = all.blocks
               /\ compute_ret' = ComputeResult(all.keys, all.blocks)
    /\ pc' = "collected"
    /\ UNCHANGED <<init_arguments, power_spectrum, systems, gradients,
                   calculator_calls, spherical_expansion_1,
                   spherical_expansion_2, iteration, passes>>
    /\ UNCHANGED cg_vars

NextAnyOrder ==
    \/ Construct
    \/ ComputeBegin
    \/ ComputeCalculator1
    \/ ComputeExpansion1
    \/ ComputeCalculator2
    \/ ComputeExpansion2
    \/ ComputeIterationAnyOrder
    \/ ComputeCollect

SpecAnyOrder == InitPS /\ [][NextAnyOrder]_vars

(***************************************************************************)
(* The calls of the two functions on the same inputs.                      *)
(***************************************************************************)
InitCG ==
    /\ lam \in 0..MaxL
    /\ return_empty_array \in BOOLEAN
    /\ \E seed \in Seeds :
          /\ sparse_cache = [t \in CachedTriples |-> SparseCoeffs(seed, t)]
          /\ dense_cache = [t \in CachedTriples |-> DenseCoeffs(seed, t)]
          /\ \/ \E n1 \in 0..MaxSamples, n2 \in 0..MaxSamples,
                   l1 \in 0..MaxL, l2 \in 0..MaxL,
                   p1 \in 1..MaxProps, p2 \in 1..MaxProps :
                   /\ arr_1 = ArrGen(seed, 1, <<n1, 2 * l1 + 1, p1>>)
                   /\ arr_2 = ArrGen(seed, 3, <<n2, 2 * l2 + 1, p2>>)
             \/ \E type_1 \in {"torch", "list"}, type_2 \in {"torch", "list"} :
                   /\ arr_1 = Opaque(type_1)
                   /\ arr_2 = Opaque(type_2)
    /\ sparse_ret = Pending
    /\ dense_ret = Pending
    /\ NoPowerSpectrum

SparseCombine ==
    /\ sparse_ret.tag = "pending"
    /\ sparse_ret' = _sparse_combine(arr_1, arr_2, lam, sparse_cache,
                                     return_empty_array)
    /\ UNCHANGED <<arr_1, arr_2, lam, return_empty_array, sparse_cache,
                   dense_cache, dense_ret>>
    /\ UNCHANGED ps_vars

DenseCombine ==
    /\ dense_ret.tag = "pending"
    /\ dense_ret' = _dense_combine(arr_1, arr_2, lam, dense_cache)
    /\ UNCHANGED <<arr_1, arr_2, lam, return_empty_array, sparse_cache,
                   dense_cache, sparse_ret>>
    /\ UNCHANGED ps_vars

NextCG == SparseCombine \/ DenseCombine

SpecCG == InitCG /\ [][NextCG]_vars

(***************************************************************************)
(* Properties of the combination functions.                                *)
(***************************************************************************)
BothCalled == sparse_ret.tag # "pending" /\ dense_ret.tag # "pending"
NumpyInputs == arr_1.type = "ndarray" /\ arr_2.type = "ndarray"
SameSamples == arr_1.shape[1] = arr_2.shape[1]
RequestedTriple == <<InferL(arr_1), InferL(arr_2), lam>>
SameCoefficients ==
    /\ DOMAIN sparse_cache = DOMAIN dense_cache
    /\ \A t \in DOMAIN dense_cache :
          \A k \in 1..Prod(CoeffShape(t)) :
             LET idx == Unravel(k - 1, CoeffShape(t))
                 hit == {j \in 1..Len(sparse_cache[t]) :
                            SubSeq(sparse_cache[t][j], 1, 3) = idx}
             IN /\ Cardinality(hit) <= 1
                /\ At(dense_cache[t], idx)
                     = (IF hit = {} THEN 0
                        ELSE sparse_cache[t][CHOOSE j \in hit : TRUE][4])
ExpectedShape == <<arr_1.shape[1], 2 * lam + 1, arr_1.shape[3] * arr_2.shape[3]>>

\* C1: on numpy inputs with the same number of samples and coefficient
\* sources holding the same values for (l1, l2, lambda), _sparse_combine and
\* _dense_combine both return, and their arrays have the same shape and the
\* same value at every [sample, mu, property] position.
C1_SparseEqualsDense ==
    (/\ BothCalled /\ NumpyInputs /\ SameSamples /\ ~return_empty_array
     /\ SameCoefficients /\ RequestedTriple \in DOMAIN dense_cache)
    => /\ sparse_ret.tag = "return" /\ dense_ret.tag = "return"
       /\ sparse_ret.value.shape = dense_ret.value.shape
       /\ \A i \in 0..(arr_1.shape[1] - 1), mu \in 0..(2 * lam),
             q \in 0..(arr_1.shape[3] * arr_2.shape[3] - 1) :
             At(sparse_ret.value, <<i, mu, q>>) = At(dense_ret.value, <<i, mu, q>>)

\* both strategies returned for l1 = l2 = lambda = 1, two samples and
\* property counts 1 and 2, with a nonzero entry in the result
C1_Witness ==
    /\ BothCalled /\ NumpyInputs /\ ~return_empty_array /\ SameCoefficients
    /\ arr_1.shape = <<2, 3, 1>> /\ arr_2.shape = <<2, 3, 2>> /\ lam = 1
    /\ sparse_ret.tag = "return" /\ dense_ret.tag = "return"
    /\ \E k \in 1..Len(sparse_ret.value.data) : sparse_ret.value.data[k] # 0

\* C2: for numpy inputs with the same number of samples and a lambda the
\* coefficient source holds, the arrays returned by _sparse_combine and by
\* _dense_combine have shape [n_samples, 2*lambda+1, n_props_1*n_props_2].
C2_OutputShape ==
    (NumpyInputs /\ SameSamples /\ RequestedTriple \in DOMAIN dense_cache)
    => /\ sparse_ret.tag # "pending"
          => sparse_ret.tag = "return" /\ sparse_ret.value.shape = ExpectedShape
       /\ dense_ret.tag # "pending"
          => dense_ret.tag = "return" /\ dense_ret.value.shape = ExpectedShape

\* both returned with three distinct axis lengths: 2 samples, 2*1+1 = 3
\* components and 2*2 = 4 properties
C2_Witness ==
    /\ BothCalled /\ NumpyInputs /\ lam = 1
    /\ arr_1.shape = <<2, 3, 2>> /\ arr_2.shape = <<2, 1, 2>>
    /\ sparse_ret.tag = "return" /\ dense_ret.tag = "return"
    /\ dense_ret.value.shape = <<2, 3, 4>>

\* C3: whenever the numpy inputs have different sample counts, both
\* _sparse_combine and _dense_combine fail with an error.
C3_MismatchedSamplesFail ==
    (NumpyInputs /\ ~SameSamples)
    => /\ sparse_ret.tag # "pending" => sparse_ret.tag = "raise"
       /\ dense_ret.tag # "pending" => dense_ret.tag = "raise"

\* C4: when the coefficient source has no entry for (l1, l2, lambda), with
\* l1 and l2 inferred from the component axes of the numpy inputs,
\* _sparse_combine (return_empty_array false) and _dense_combine raise and
\* return no array.
C4_MissingTripleFails ==
    (NumpyInputs /\ RequestedTriple \notin DOMAIN sparse_cache
                 /\ RequestedTriple \notin DOMAIN dense_cache)
    => /\ (sparse_ret.tag # "pending" /\ ~return_empty_array)
          => sparse_ret.tag = "raise" /\ sparse_ret.value = None
       /\ dense_ret.tag # "pending"
          => dense_ret.tag = "raise" /\ dense_ret.value = None

\* both were called on sample-matched inputs with l1 = 1, l2 = 0, lambda = 0,
\* a triple outside the triangle condition, and both raised KeyError
C4_Witness ==
    /\ BothCalled /\ NumpyInputs /\ SameSamples /\ ~return_empty_array
    /\ arr_1.shape[1] = 2 /\ RequestedTriple = <<1, 0, 0>>
    /\ RequestedTriple \notin DOMAIN sparse_cache
    /\ sparse_ret.exc = "KeyError" /\ dense_ret.exc = "KeyError"

\* C5: with return_empty_array = True on sample-matched numpy inputs,
\* _sparse_combine returns an all-zero array of shape
\* [n_samples, 2*lambda+1, n_props_1*n_props_2] without reading the
\* coefficient source, also when the source has no entry for the triple.
C5_EmptyMode ==
    (NumpyInputs /\ SameSamples /\ return_empty_array /\ sparse_ret.tag # "pending")
    => /\ sparse_ret.tag = "return"
       /\ sparse_ret.cg_reads = 0
       /\ sparse_ret.value.shape = ExpectedShape
       /\ \A k \in 1..Len(sparse_ret.value.data) : sparse_ret.value.data[k] = 0
       /\ Len(sparse_ret.value.data) = Prod(ExpectedShape)

\* an empty-mode call returned a non-empty array although the source holds
\* no entry for the requested triple
C5_Witness ==
    /\ NumpyInputs /\ SameSamples /\ return_empty_array
    /\ RequestedTriple \notin DOMAIN sparse_cache
    /\ sparse_ret.tag = "return"
    /\ sparse_ret.value.shape = <<2, 3, 2>>

(***************************************************************************)
(* Properties of PowerSpectrum.                                            *)
(***************************************************************************)
\* the constructor has been called
Constructed == init_arguments # <<>>

\* the calculators a PowerSpectrum may be built from, and the pairs of
\* arguments it may be built from
IsSphericalExpansion(calculator) ==
    calculator.c_name \in {"spherical_expansion", "lode_spherical_expansion"}

Compatible(first, second) ==
    /\ IsSphericalExpansion(first)
    /\ \/ second = NoCalculator
       \/ /\ IsSphericalExpansion(second)
          /\ second.parameters.max_angular = first.parameters.max_angular

\* C6: the construction of a PowerSpectrum succeeds exactly when
\* calculator_1 is a (lode) spherical expansion and calculator_2 is None or
\* a (lode) spherical expansion with the same max_angular; in every other
\* case it raises, and compute is never entered, so that no call of compute
\* runs with two different max_angular.
C6_ConstructionChecks ==
    Constructed =>
        /\ power_spectrum.tag = "return"
               <=> Compatible(init_arguments[1], init_arguments[2])
        /\ ~Compatible(init_arguments[1], init_arguments[2]) =>
               /\ power_spectrum.tag = "raise"
               /\ pc = "failed"
               /\ calculator_calls = <<0, 0>>
               /\ compute_ret = NotCalled

\* two supported calculators with different max_angular are rejected
C6_Witness ==
    /\ Constructed
    /\ IsSphericalExpansion(init_arguments[1])
    /\ init_arguments[2] # NoCalculator
    /\ IsSphericalExpansion(init_arguments[2])
    /\ init_arguments[1].parameters.max_angular
           # init_arguments[2].parameters.max_angular
    /\ power_spectrum = Raised("ValueError")
    /\ pc = "failed"

\* compute has been entered
ComputeEntered == pc \notin {"new", "failed", "constructed"}

\* the gradients argument holds a value that is not "positions"
OtherThanPositions(requested) ==
    /\ ~requested.is_none
    /\ \E j \in 1..Len(requested.list) : requested.list[j] # "positions"

\* C7: when the gradients passed to compute hold a value other than
\* "positions", compute raises NotImplementedError, returns no map, and
\* neither calculator_1.compute nor calculator_2.compute has been called.
C7_UnsupportedGradients ==
    (ComputeEntered /\ OtherThanPositions(gradients)) =>
        /\ pc = "done"
        /\ compute_ret = Raised("NotImplementedError")
        /\ calculator_calls = <<0, 0>>

\* "positions" first, then another parameter
C7_Witness ==
    /\ gradients = GradientsList(<<"positions", "cell">>)
    /\ pc = "done"
    /\ compute_ret = Raised("NotImplementedError")
    /\ calculator_calls = <<0, 0>>

\* a map as a calculator returned it whose names are not the expected ones
UnexpectedNames(tm) ==
    \/ tm.keys.names # <<"spherical_harmonics_l", "species_center", "species_neighbor">>
    \/ \E k \in 1..Len(tm.blocks) : tm.blocks[k].properties.names # <<"n">>

\* C8: when the map calculator_1 returned, or the one calculator_2
\* returned, has other key names than spherical_harmonics_l,
\* species_center, species_neighbor or other property names than n, the
\* next step of compute raises and compute is over without a map; a call
\* that raised never returns a map afterwards.
C8_UnexpectedNamesFail ==
    [][/\ (\/ pc = "expansion_1" /\ UnexpectedNames(spherical_expansion_1)
           \/ pc = "expansion_2" /\ UnexpectedNames(spherical_expansion_2))
          => (pc' = "done" /\ compute_ret'.tag = "raise")
       /\ compute_ret.tag = "raise" => compute_ret' = compute_ret]_vars

\* calculator_1 returned the expected names, calculator_2 other key names
C8_Witness ==
    /\ pc = "done"
    /\ calculator_calls = <<1, 1>>
    /\ spherical_expansion_2.keys.names = <<"l", "species_center", "species_neighbor">>
    /\ compute_ret = Raised("AssertionError")

\* both spherical expansions passed their assertions and had their
\* neighbor species moved to the properties
BothMoved ==
    /\ spherical_expansion_1.keys.names = <<"spherical_harmonics_l", "species_center">>
    /\ spherical_expansion_2.keys.names = <<"spherical_harmonics_l", "species_center">>

\* the positions of the blocks of spherical_expansion_1 and
\* spherical_expansion_2 that have the same (l, species_center)
MatchedPairs ==
    {pair \in (1..Len(spherical_expansion_1.blocks))
                  \X (1..Len(spherical_expansion_2.blocks)) :
        spherical_expansion_1.keys.values[pair[1]]
            = spherical_expansion_2.keys.values[pair[2]]}

SamplesDiffer(pair) ==
    spherical_expansion_1.blocks[pair[1]].samples
        # spherical_expansion_2.blocks[pair[2]].samples

\* C9: a pair of blocks matched on (l, species_center) whose samples are
\* not identical is never combined: no block of the output list comes from
\* such a pair, the loop does not go past it, and compute is over with an
\* error and without a map.
C9_SamplesMustMatch ==
    (pc \in {"loop", "done"} /\ BothMoved) =>
        \A pair \in MatchedPairs :
            SamplesDiffer(pair) =>
                /\ \A j \in 1..Len(keys) :
                       keys[j] # spherical_expansion_1.keys.values[pair[1]]
                /\ iteration <= pair[1]
                /\ compute_ret.tag # "return"
                /\ pc = "done" => compute_ret.tag = "raise"

\* both calculators ran, a matched pair has different samples, compute
\* raised the assertion error
C9_Witness ==
    /\ pc = "done"
    /\ BothMoved
    /\ calculator_calls = <<1, 1>>
    /\ \E pair \in MatchedPairs : SamplesDiffer(pair)
    /\ compute_ret = Raised("AssertionError")

\* the sum over m of block_1[i, m, a] * block_2[i, m, b]
Contraction(block_1, block_2, i, a, b) ==
    LET S[m \in 0..block_1.values.shape[2]] ==
            IF m = 0 THEN 0
            ELSE S[m - 1] + At(block_1.values, <<i, m - 1, a>>)
                                * At(block_2.values, <<i, m - 1, b>>)
    IN S[block_1.values.shape[2]]

\* the pair of blocks the j-th block of the output list was made from
Source1(j) ==
    spherical_expansion_1.blocks[
        CHOOSE k \in 1..Len(spherical_expansion_1.blocks) :
            spherical_expansion_1.keys.values[k] = keys[j]]

Source2(j) ==
    spherical_expansion_2.blocks[
        CHOOSE k \in 1..Len(spherical_expansion_2.blocks) :
            spherical_expansion_2.keys.values[k] = keys[j]]

\* C10: the block made from a pair of blocks with P1 and P2 properties has
\* P1 * P2 properties; its property a * P2 + b is the row properties_1[a]
\* followed by properties_2[b], and its value for the sample i is
\* factor * sum over m of block_1[i, m, a] * block_2[i, m, b], with
\* factor = 1 / sqrt(2 * l + 1).
C10_PropertiesAndValues ==
    \A j \in 1..Len(blocks) :
        LET block_1 == Source1(j)
            block_2 == Source2(j)
            P1 == Len(block_1.properties.values)
            P2 == Len(block_2.properties.values)
            n == Len(block_1.samples.values)
            l == keys[j][1]
        IN /\ Len(blocks[j].properties.values) = P1 * P2
           /\ blocks[j].values.shape = <<n, P1 * P2>>
           /\ \A a \in 0..(P1 - 1), b \in 0..(P2 - 1) :
                  /\ blocks[j].properties.values[a * P2 + b + 1]
                         = block_1.properties.values[a + 1]
                               \o block_2.properties.values[b + 1]
                  /\ \A i \in 0..(n - 1) :
                         LET sum == Contraction(block_1, block_2, i, a, b)
                         IN At(blocks[j].values, <<i, a * P2 + b>>)
                                = IF sum = 0 THEN <<0, 1>> ELSE <<sum, 2 * l + 1>>

\* a block for l = 1 made from blocks with 2 and 4 properties, with a value
\* that is not zero in a column where neither a nor b is 0
C10_Witness ==
    \E j \in 1..Len(blocks) :
        /\ keys[j][1] = 1
        /\ Len(Source1(j).properties.values) = 2
        /\ Len(Source2(j).properties.values) = 4
        /\ Len(blocks[j].properties.values) = 8
        /\ Len(blocks[j].samples.values) > 0
        /\ At(blocks[j].values, <<0, 1 * 4 + 1>>)[1] # 0
        /\ At(blocks[j].values, <<0, 1 * 4 + 1>>)[2] = 3

(***************************************************************************)
(* Properties of the gradients of the power spectrum.                      *)
(***************************************************************************)
\* the block carries a "positions" gradient, with samples or without
HasGradient(block) == "positions" \in DOMAIN block.gradients

GradientRows(block) == block.gradients["positions"].samples.values

HasGradientRows(block) == HasGradient(block) /\ GradientRows(block) # <<>>

\* the place of the row r among rows, counted from 0
IndexOf(rows, r) == (CHOOSE i \in 1..Len(rows) : rows[i] = r) - 1

\* [r in S1] * sum over m of grad_1[r, x, m, a] * block_2[sample(r), m, b]
Term1(block_1, block_2, r, x, a, b) ==
    LET gradient_1 == block_1.gradients["positions"]
        rows == gradient_1.samples.values
        M == gradient_1.values.shape[3]
        S[m \in 0..M] ==
            IF m = 0 THEN 0
            ELSE S[m - 1] + At(gradient_1.values, <<IndexOf(rows, r), x, m - 1, a>>)
                                * At(block_2.values, <<r[1], m - 1, b>>)
    IN IF \E i \in 1..Len(rows) : rows[i] = r THEN S[M] ELSE 0

\* [r in S2] * sum over m of block_1[sample(r), m, a] * grad_2[r, x, m, b]
Term2(block_1, block_2, r, x, a, b) ==
    LET gradient_2 == block_2.gradients["positions"]
        rows == gradient_2.samples.values
        M == gradient_2.values.shape[3]
        S[m \in 0..M] ==
            IF m = 0 THEN 0
            ELSE S[m - 1] + At(block_1.values, <<r[1], m - 1, a>>)
                                * At(gradient_2.values, <<IndexOf(rows, r), x, m - 1, b>>)
    IN IF \E i \in 1..Len(rows) : rows[i] = r THEN S[M] ELSE 0

\* n / sqrt(2 * l + 1)
OverRoot(n, l) == IF n = 0 THEN <<0, 1>> ELSE <<n, 2 * l + 1>>

\* C11: when both blocks of a pair carry a "positions" gradient with
\* samples S1 and S2, the gradient of the block made from them has for
\* samples the union of S1 and S2, every row once, and its value for the
\* row r, the direction x and the property a * P2 + b is
\* factor * ([r in S1] * sum over m of grad_1[r, x, m, a] * block_2[sample(r), m, b]
\*           + [r in S2] * sum over m of block_1[sample(r), m, a] * grad_2[r, x, m, b]).
C11_ProductRule ==
    \A j \in 1..Len(blocks) :
        (HasGradientRows(Source1(j)) /\ HasGradientRows(Source2(j))) =>
            /\ HasGradient(blocks[j])
            /\ LET block_1 == Source1(j)
                   block_2 == Source2(j)
                   P1 == Len(block_1.properties.values)
                   P2 == Len(block_2.properties.values)
                   gradient == blocks[j].gradients["positions"]
                   U == gradient.samples.values
               IN /\ {U[u] : u \in 1..Len(U)}
                        = {GradientRows(block_1)[i] : i \in 1..Len(GradientRows(block_1))}
                          \cup {GradientRows(block_2)[i] : i \in 1..Len(GradientRows(block_2))}
                  /\ \A u, v \in 1..Len(U) : U[u] = U[v] => u = v
                  /\ gradient.values.shape = <<Len(U), 3, P1 * P2>>
                  /\ \A u \in 1..Len(U), x \in 0..2,
                        a \in 0..(P1 - 1), b \in 0..(P2 - 1) :
                         At(gradient.values, <<u - 1, x, a * P2 + b>>)
                             = OverRoot(Term1(block_1, block_2, U[u], x, a, b)
                                        + Term2(block_1, block_2, U[u], x, a, b),
                                        keys[j][1])

\* a block for l = 1 whose gradient has a row of S1 alone, a row of S2 alone
\* and a row of both, where both terms are not zero and their sum is not
\* zero either
C11_Witness ==
    \E j \in 1..Len(blocks) :
        /\ keys[j][1] = 1
        /\ HasGradientRows(Source1(j))
        /\ HasGradientRows(Source2(j))
        /\ HasGradient(blocks[j])
        /\ LET S1 == {GradientRows(Source1(j))[i] : i \in 1..Len(GradientRows(Source1(j)))}
               S2 == {GradientRows(Source2(j))[i] : i \in 1..Len(GradientRows(Source2(j)))}
           IN /\ S1 \ S2 # {}
              /\ S2 \ S1 # {}
              /\ \E r \in S1 \cap S2, x \in 0..2 :
                    /\ Term1(Source1(j), Source2(j), r, x, 0, 0) # 0
                    /\ Term2(Source1(j), Source2(j), r, x, 0, 0) # 0
                    /\ Term1(Source1(j), Source2(j), r, x, 0, 0)
                           + Term2(Source1(j), Source2(j), r, x, 0, 0) # 0

\* C12: the block made from a pair of blocks carries a "positions"
\* gradient when one of the two blocks carries one, and carries no gradient
\* at all when neither does.
C12_GradientPresence ==
    \A j \in 1..Len(blocks) :
        IF HasGradient(Source1(j)) \/ HasGradient(Source2(j))
        THEN HasGradient(blocks[j])
        ELSE DOMAIN blocks[j].gradients = {}

\* a call of compute with gradients = ["positions"] that made a block with
\* a gradient that has rows
C12_Witness ==
    /\ gradients = GradientsList(<<"positions">>)
    /\ \E j \in 1..Len(blocks) :
          /\ HasGradient(Source1(j))
          /\ HasGradientRows(blocks[j])

\* both blocks carry a "positions" gradient and exactly one has no rows
ExactlyOneEmpty(block_1, block_2) ==
    /\ HasGradient(block_1)
    /\ HasGradient(block_2)
    /\ (GradientRows(block_1) = <<>>) # (GradientRows(block_2) = <<>>)

\* compute is over at the pass of the loop over a pair of blocks with the
\* same samples, of which exactly one has a gradient without rows
StoppedAtOneEmpty ==
    /\ pc = "done"
    /\ BothMoved
    /\ iteration <= Len(spherical_expansion_1.blocks)
    /\ \E pair \in MatchedPairs :
          /\ pair[1] = iteration
          /\ ~SamplesDiffer(pair)
          /\ ExactlyOneEmpty(spherical_expansion_1.blocks[pair[1]],
                             spherical_expansion_2.blocks[pair[2]])

\* C13: when exactly one of the two gradients has no rows,
\* _positions_gradients gives the new block a gradient whose samples are
\* those of the other gradient and whose values are the product-rule term
\* of that side alone.
C13_OneEmptyGradient ==
    /\ StoppedAtOneEmpty => compute_ret.tag # "raise"
    /\ \A j \in 1..Len(blocks) :
           ExactlyOneEmpty(Source1(j), Source2(j)) =>
               /\ HasGradient(blocks[j])
               /\ LET block_1 == Source1(j)
                      block_2 == Source2(j)
                      P1 == Len(block_1.properties.values)
                      P2 == Len(block_2.properties.values)
                      gradient == blocks[j].gradients["positions"]
                      U == gradient.samples.values
                  IN /\ U = (IF GradientRows(block_1) = <<>>
                             THEN GradientRows(block_2)
                             ELSE GradientRows(block_1))
                     /\ \A u \in 1..Len(U), x \in 0..2,
                           a \in 0..(P1 - 1), b \in 0..(P2 - 1) :
                            At(gradient.values, <<u - 1, x, a * P2 + b>>)
                                = OverRoot(Term1(block_1, block_2, U[u], x, a, b)
                                           + Term2(block_1, block_2, U[u], x, a, b),
                                           keys[j][1])

\* the rows of a sequence of rows, as a set
RowSet(rows) == {rows[i] : i \in 1..Len(rows)}

\* C14: for the gradient samples S1 and S2 of a pair of blocks,
\* union_and_mapping gives the rows of S1 in their order, then the rows
\* of S2 that S1 does not hold in their order: as many rows as S1 and S2
\* have together, none twice; and the position in this union of every row
\* of S1 and of every row of S2. The gradient of the new block has the
\* union for samples.
C14_UnionAndMapping ==
    \A j \in 1..Len(blocks) :
        (HasGradientRows(Source1(j)) /\ HasGradientRows(Source2(j))) =>
            LET S1 == Source1(j).gradients["positions"].samples
                S2 == Source2(j).gradients["positions"].samples
                result == union_and_mapping(S1, S2)
                U == result.union.values
            IN /\ SubSeq(U, 1, Len(S1.values)) = S1.values
               /\ SubSeq(U, Len(S1.values) + 1, Len(U))
                      = SelectSeq(S2.values, LAMBDA r : r \notin RowSet(S1.values))
               /\ Len(U) = Cardinality(RowSet(S1.values) \cup RowSet(S2.values))
               /\ \A u, v \in 1..Len(U) : U[u] = U[v] => u = v
               /\ Len(result.self_mapping) = Len(S1.values)
               /\ \A i \in 1..Len(S1.values) :
                      U[result.self_mapping[i] + 1] = S1.values[i]
               /\ Len(result.other_mapping) = Len(S2.values)
               /\ \A i \in 1..Len(S2.values) :
                      U[result.other_mapping[i] + 1] = S2.values[i]
               /\ HasGradient(blocks[j])
               /\ blocks[j].gradients["positions"].samples.values = U

\* gradient samples of which S1 has a row that S2 does not have, S2 a row
\* that S1 does not have, and both a row in common: the union is longer
\* than S1 and shorter than S1 and S2 one after the other
C14_Witness ==
    \E j \in 1..Len(blocks) :
        /\ HasGradientRows(Source1(j))
        /\ HasGradientRows(Source2(j))
        /\ LET S1 == GradientRows(Source1(j))
               S2 == GradientRows(Source2(j))
           IN /\ RowSet(S1) \ RowSet(S2) # {}
              /\ RowSet(S2) \ RowSet(S1) # {}
              /\ RowSet(S1) \cap RowSet(S2) # {}
              /\ HasGradient(blocks[j])
              /\ Len(GradientRows(blocks[j])) > Len(S1)
              /\ Len(GradientRows(blocks[j])) < Len(S1) + Len(S2)

(***************************************************************************)
(* Properties of the loop over the blocks.                                 *)
(***************************************************************************)
\* the PowerSpectrum was built with calculator_2 = None
SingleCalculator == Constructed /\ init_arguments[2] = NoCalculator

\* C15: with calculator_2 = None, calculator_1 computes once and
\* calculator_2 never, the map of calculator_1 with its neighbor species
\* moved is both spherical_expansion_1 and spherical_expansion_2, and the
\* block made for a key has at the column a * P + b the value
\* factor * sum over m of block[i, m, a] * block[i, m, b], where block is the
\* block of that key and factor = 1 / sqrt(2 * l + 1).
C15_SelfCombination ==
    (SingleCalculator /\ pc \in {"loop", "done"} /\ BothMoved) =>
        /\ calculator_calls = <<1, 0>>
        /\ spherical_expansion_2 = spherical_expansion_1
        /\ \A j \in 1..Len(blocks) :
               LET block == Source1(j)
                   P == Len(block.properties.values)
                   n == Len(block.samples.values)
               IN /\ blocks[j].values.shape = <<n, P * P>>
                  /\ \A i \in 0..(n - 1), a \in 0..(P - 1), b \in 0..(P - 1) :
                         At(blocks[j].values, <<i, a * P + b>>)
                             = OverRoot(Contraction(block, block, i, a, b), keys[j][1])

\* compute returned a map made from one calculator; a block for l = 1 has a
\* value that is not zero at a column with a # b
C15_Witness ==
    /\ SingleCalculator
    /\ pc = "done"
    /\ compute_ret.tag = "return"
    /\ calculator_calls = <<1, 0>>
    /\ \E j \in 1..Len(blocks) :
          /\ keys[j][1] = 1
          /\ Len(Source1(j).properties.values) > 1
          /\ Len(blocks[j].samples.values) > 0
          /\ At(blocks[j].values, <<0, 1>>)[1] # 0
          /\ At(blocks[j].values, <<0, 1>>)[2] = 3

\* the keys of spherical_expansion_1 that the loop has been over, and those
\* of them that spherical_expansion_2 has as well
KeysDone ==
    SubSeq(spherical_expansion_1.keys.values, 1, iteration - 1)

KeysInBoth ==
    SelectSeq(KeysDone, LAMBDA key : key \in RowSet(spherical_expansion_2.keys.values))

\* C16: after the neighbor species are moved, the loop makes one block for
\* every (l, species_center) key of spherical_expansion_1 that
\* spherical_expansion_2 has as well, in the order of spherical_expansion_1;
\* the list of keys and the list of blocks go together and no key is twice
\* in the list.
C16_OneBlockPerKey ==
    (pc \in {"loop", "done"} /\ BothMoved) =>
        /\ keys = KeysInBoth
        /\ Len(blocks) = Len(keys)
        /\ \A i, j \in 1..Len(keys) : keys[i] = keys[j] => i = j
        /\ \A j \in 1..Len(blocks) : blocks[j].samples = Source1(j).samples
        /\ compute_ret.tag = "return" =>
               iteration = Len(spherical_expansion_1.blocks) + 1

\* compute returned; spherical_expansion_1 has keys that
\* spherical_expansion_2 does not have, and blocks were made for the others
C16_Witness ==
    /\ pc = "done"
    /\ BothMoved
    /\ compute_ret.tag = "return"
    /\ Len(keys) >= 2
    /\ Len(keys) < Len(spherical_expansion_1.keys.values)
    /\ Len(blocks) = Len(keys)

\* compute is over at the pass of the loop over a pair of blocks with the
\* same samples that both carry a "positions" gradient
StoppedAtGradients ==
    /\ pc = "done"
    /\ BothMoved
    /\ iteration <= Len(spherical_expansion_1.blocks)
    /\ \E pair \in MatchedPairs :
          /\ pair[1] = iteration
          /\ ~SamplesDiffer(pair)
          /\ HasGradient(spherical_expansion_1.blocks[pair[1]])
          /\ HasGradient(spherical_expansion_2.blocks[pair[2]])

\* C17: for every pair of gradients, with rows or without,
\* _positions_gradients builds a gradient whose values have the shape
\* [rows of its samples, 3, properties of the new block], the rows of the
\* labels of each axis, and whose properties are those of the new block.
C17_GradientShape ==
    /\ StoppedAtGradients => compute_ret.tag # "raise"
    /\ \A j \in 1..Len(blocks) :
           HasGradient(blocks[j]) =>
               LET gradient == blocks[j].gradients["positions"]
               IN /\ gradient.values.shape
                         = <<Len(gradient.samples.values), 3,
                             Len(blocks[j].properties.values)>>
                  /\ Len(gradient.components) = 1
                  /\ Len(gradient.components[1].values) = 3
                  /\ gradient.properties = blocks[j].properties

(***************************************************************************)
(* More properties of the combination functions.                           *)
(***************************************************************************)
\* the sum, over the keys (m1, m2, mu) of the table, of
\* coeff(m1, m2, mu) * arr_1[i, m1, a] * arr_2[i, m2, b]
SumOverKeys(table, i, mu, a, b) ==
    LET S[k \in 0..Len(table)] ==
            IF k = 0 THEN 0
            ELSE S[k - 1]
                 + (IF table[k][3] = mu
                    THEN table[k][4] * At(arr_1, <<i, table[k][1], a>>)
                                     * At(arr_2, <<i, table[k][2], b>>)
                    ELSE 0)
    IN S[Len(table)]

\* _sparse_combine returned an array it has accumulated
SparseAccumulated ==
    /\ NumpyInputs
    /\ ~return_empty_array
    /\ sparse_ret.tag = "return"

\* C18: the entry [i, mu, a * n_props_2 + b] of the array _sparse_combine
\* returns is the sum over the keys (m1, m2, mu) of the table of (l1, l2,
\* lambda) of coeff(m1, m2, mu) * arr_1[i, m1, a] * arr_2[i, m2, b]; a row mu
\* without key in the table is zero.
C18_SparseFormula ==
    SparseAccumulated =>
        LET table == sparse_cache[RequestedTriple]
            out == sparse_ret.value
        IN /\ out.shape = ExpectedShape
           /\ \A i \in 0..(arr_1.shape[1] - 1), mu \in 0..(2 * lam),
                 a \in 0..(arr_1.shape[3] - 1), b \in 0..(arr_2.shape[3] - 1) :
                  /\ At(out, <<i, mu, a * arr_2.shape[3] + b>>)
                         = SumOverKeys(table, i, mu, a, b)
                  /\ (\A k \in 1..Len(table) : table[k][3] # mu)
                         => At(out, <<i, mu, a * arr_2.shape[3] + b>>) = 0

\* l1 = l2 = lambda = 1 with two properties each: a row mu with several keys
\* and an entry that is not zero at a column with a = b = 1, and a row mu
\* without key
C18_Witness ==
    /\ SparseAccumulated
    /\ RequestedTriple = <<1, 1, 1>>
    /\ arr_1.shape[1] > 0
    /\ arr_1.shape[3] = 2
    /\ arr_2.shape[3] = 2
    /\ \E mu \in 0..2 :
          /\ Cardinality({k \in 1..Len(sparse_cache[RequestedTriple]) :
                             sparse_cache[RequestedTriple][k][3] = mu}) > 1
          /\ At(sparse_ret.value, <<0, mu, 3>>) # 0
    /\ \E mu \in 0..2 :
          \A k \in 1..Len(sparse_cache[RequestedTriple]) :
              sparse_cache[RequestedTriple][k][3] # mu

\* the outcome of a call is an array
ReturnsArray(ret) == ret.tag = "return" /\ ret.value.type = "ndarray"

\* the outcome of a call is a return without a value
ReturnsNothing(ret) == ret.tag = "return" /\ ret.value.type = "NoneType"

C20_InputsNotModified ==
    [][pc = "loop" =>
          /\ spherical_expansion_1' = spherical_expansion_1
          /\ spherical_expansion_2' = spherical_expansion_2
          /\ Len(blocks') >= Len(blocks)
          /\ \A j \in 1..Len(blocks) : blocks'[j] = blocks[j]]_vars

\* compute returned a map made from one calculator, spherical_expansion_2
\* being spherical_expansion_1, with blocks that were given a gradient
C20_Witness ==
    /\ SingleCalculator
    /\ pc = "done"
    /\ compute_ret.tag = "return"
    /\ spherical_expansion_2 = spherical_expansion_1
    /\ Len(blocks) >= 2
    /\ \A j \in 1..Len(blocks) :
          /\ HasGradientRows(blocks[j])
          /\ HasGradientRows(Source1(j))

\* no two places of a sequence of positions hold the same position
Injective(mapping) ==
    \A i, j \in 1..Len(mapping) : mapping[i] = mapping[j] => i = j

\* C22: in a gradient built by _positions_gradients, the "sample" of every
\* row is the position of a row of the samples of the new block, which are
\* those of block_1; the positions in the union of the rows of the samples
\* of gradient_1 are all different, and so are those of the rows of the
\* samples of gradient_2: no row of the gradient gets two contributions of
\* the same term.
C22_ValidRowsInjectiveMappings ==
    \A j \in 1..Len(blocks) :
        HasGradient(blocks[j]) =>
            LET S1 == Source1(j).gradients["positions"].samples
                S2 == Source2(j).gradients["positions"].samples
                result == union_and_mapping(S1, S2)
                U == GradientRows(blocks[j])
            IN /\ blocks[j].samples = Source1(j).samples
               /\ \A u \in 1..Len(U) :
                      U[u][1] \in 0..(Len(blocks[j].samples.values) - 1)
               /\ Injective(result.self_mapping)
               /\ Injective(result.other_mapping)
               /\ \A i \in 1..Len(result.self_mapping) :
                      result.self_mapping[i] \in 0..(Len(U) - 1)
               /\ \A i \in 1..Len(result.other_mapping) :
                      result.other_mapping[i] \in 0..(Len(U) - 1)

\* a gradient made from two gradients that both have several rows for the
\* same sample, for a block with several samples
C22_Witness ==
    \E j \in 1..Len(blocks) :
        /\ HasGradientRows(blocks[j])
        /\ Len(blocks[j].samples.values) > 1
        /\ \E u, v \in 1..Len(GradientRows(Source1(j))) :
              /\ u # v
              /\ GradientRows(Source1(j))[u][1] = GradientRows(Source1(j))[v][1]
        /\ \E u, v \in 1..Len(GradientRows(Source2(j))) :
              /\ u # v
              /\ GradientRows(Source2(j))[u][1] = GradientRows(Source2(j))[v][1]
        /\ \E u \in 1..Len(GradientRows(blocks[j])) : GradientRows(blocks[j])[u][1] > 0

(***************************************************************************)
(* C21: the passes of the loop of compute are independent of each other.   *)
(***************************************************************************)
Collected == pc = "collected"

\* the loop of compute run pass after pass on the two maps
LoopInOrder ==
    SequentialLoop(spherical_expansion_1, spherical_expansion_2,
                   power_spectrum.value.calculator_2 = NoCalculator,
                   1, <<>>, <<>>)

\* C21: when the passes of the loop of compute, one for each
\* (l, species_center) key of the first map, have run in any order and what
\* they produced has been collected in the order of the keys of the first
\* map, the keys and the blocks are those of the sequential loop, and so is
\* the outcome of compute (the map returned or the exception raised)
C21_AnyOrderAsSequential ==
    Collected =>
        \E loop \in {LoopInOrder} :
            /\ keys = loop.keys
            /\ blocks = loop.blocks
            /\ compute_ret = IF loop.tag = "raise"
                             THEN Raised(loop.exc)
                             ELSE ComputeResult(loop.keys, loop.blocks)

\* the passes of three keys or more have run, the last of them not at the
\* last position, two of them at least have produced a block with a
\* gradient, and the blocks collected have been returned in one map
C21_Witness ==
    /\ Collected
    /\ Len(spherical_expansion_1.blocks) >= 3
    /\ iteration < Len(spherical_expansion_1.blocks)
    /\ Len(keys) >= 2
    /\ \E i, j \in 1..Len(blocks) :
          /\ keys[i][1] # keys[j][1]
          /\ HasGradientRows(blocks[i])
          /\ HasGradientRows(blocks[j])
    /\ compute_ret.tag = "return"

=============================================================================
